---- MODULE Spec2Model ----
(***************************************************************************)
(* Day Out Planner API (src/main.py): lobby lifecycle and match detection.  *)
(*                                                                         *)
(* The three MongoDB collections are the shared state.  The handlers hold   *)
(* no lock and use no transaction, and the database is shared by every      *)
(* server process, so a handler is modelled as the sequence of its          *)
(* individual collection calls (find_one, insert_one, update_one,           *)
(* delete_one), each atomic on its own, run by one of several workers.      *)
(* The computation between two collection calls is local to the handler     *)
(* and is folded into the step of the collection call that precedes it.     *)
(***************************************************************************)
EXTENDS Integers, Sequences, FiniteSets, TLC

\* ---------------------------------------------------------------- bounds
MaxCalls == 4        \* requests the clients send to the handlers

Workers == {1, 2}    \* handlers in flight at the same time
UserIds == {"u1", "u2"}
LobbyIds == {"L1", "L2"}
PlaceIds == {5, 7}

None == "None"

VARIABLES
    users,      \* users_collection: user_id -> document
    lobbies,    \* lobbies_collection: lobby_id -> document (unique index)
    active,     \* active_lobbies_collection: documents in insertion order
    proc,       \* per worker: the handler it runs, its position and locals
    created,    \* history: lobby ids that create_lobby has returned
    started,    \* history: lobby ids for which start_lobby returned success
    joined,     \* history: <<lobby_id, user_id>> of joins answered with success
    refused,    \* history: <<lobby_id, user_id>> of starts answered with 403
    liked,      \* history: the likes answered with success
    calls,      \* requests accepted so far
    oids        \* ObjectIds given to the documents of lobbies_collection

vars == <<users, lobbies, active, proc, created, started, joined, refused, liked, calls, oids>>

\* ---------------------------------------------------------------- values
NoUser == [found |-> FALSE, current_lobby_id |-> None]
NoLobby ==
    [found |-> FALSE, oid |-> 0, host_id |-> None, users |-> <<>>,
     status |-> None]
EmptyLikes == [k \in {} |-> <<>>]

Idle ==
    [op |-> "none", pc |-> "idle", lobby_id |-> None, user_id |-> None,
     place_id |-> 0, user |-> NoUser, lobby |-> NoLobby,
     all_likes |-> EmptyLikes,
     known |-> FALSE]   \* history: create_lobby had returned the id at the call

Range(s) == {s[i] : i \in 1..Len(s)}

IsPrefix(s, t) == Len(s) <= Len(t) /\ \A i \in 1..Len(s) : s[i] = t[i]

\* find_one on users_collection / lobbies_collection
FindUser(u) ==
    IF u \in DOMAIN users
    THEN [found |-> TRUE, current_lobby_id |-> users[u].current_lobby_id]
    ELSE NoUser

FindLobby(l) ==
    IF l \in DOMAIN lobbies
    THEN [found |-> TRUE, oid |-> lobbies[l].oid,
          host_id |-> lobbies[l].host_id, users |-> lobbies[l].users,
          status |-> lobbies[l].status]
    ELSE NoLobby

\* find_one / update_one on active_lobbies_collection act on the first
\* document that matches the filter; 0 when none matches
ActiveIndex(docs, l) ==
    IF \E i \in 1..Len(docs) : docs[i].lobby_id = l
    THEN CHOOSE i \in 1..Len(docs) :
            /\ docs[i].lobby_id = l
            /\ \A j \in 1..(i - 1) : docs[j].lobby_id # l
    ELSE 0

\* update_one({"user_id": u}, {"$set": {"current_lobby_id": l, "is_host": True}})
SetUserHost(u, l) ==
    IF u \in DOMAIN users
    THEN [users EXCEPT ![u] = [current_lobby_id |-> l, is_host |-> TRUE]]
    ELSE users

\* update_one({"user_id": u}, {"$set": {"current_lobby_id": l}})
SetUserLobby(u, l) ==
    IF u \in DOMAIN users
    THEN [users EXCEPT ![u].current_lobby_id = l]
    ELSE users

Init ==
    /\ users = [u \in {} |-> [current_lobby_id |-> None, is_host |-> FALSE]]
    /\ lobbies = [l \in {} |-> [oid |-> 0, host_id |-> None, users |-> <<>>,
                                status |-> "open"]]
    /\ active = <<>>
    /\ proc = [w \in Workers |-> Idle]
    /\ created = {}
    /\ started = {}
    /\ joined = {}
    /\ refused = {}
    /\ liked = {}
    /\ calls = 0
    /\ oids = 0

\* the handler returns or raises: the worker is free again
Return(w) == proc' = [proc EXCEPT ![w] = Idle]

\* ------------------------------------------------------------ create_user
\* ObjectId() is a fresh id; the document starts unattached
CreateUser ==
    \E u \in UserIds \ DOMAIN users :
        /\ users' = [k \in DOMAIN users \cup {u} |->
                        IF k = u
                        THEN [current_lobby_id |-> None, is_host |-> FALSE]
                        ELSE users[k]]
        /\ UNCHANGED <<lobbies, active, proc, created, started, joined, refused, liked, calls, oids>>

\* ----------------------------------------------------------- create_lobby
\* a request arrives at an idle worker
CreateLobbyCall(w) ==
    /\ proc[w].pc = "idle"
    /\ calls < MaxCalls
    /\ \E u \in UserIds :
        proc' = [proc EXCEPT ![w] =
                    [Idle EXCEPT !.op = "create_lobby", !.pc = "c_user",
                                 !.user_id = u]]
    /\ calls' = calls + 1
    /\ UNCHANGED <<users, lobbies, active, created, started, joined, refused, liked, oids>>

\* create_lobby and join_lobby without the attachment test
UserAttachedNever(user) == FALSE

\* the attachment test of create_lobby and join_lobby on the user read
UserAttached(user) == user.current_lobby_id # None

\* the two checks of create_lobby on the user it has read
CreateLobbyCheck(user) ==
    IF ~user.found THEN "NotFound"
    ELSE IF UserAttached(user) THEN "AlreadyInLobby"
    ELSE "ok"

\* find_one(user), both checks, and the choice of the lobby id: the id is
\* six digits of a hash of the clock, any id of the id space
CreateLobbyFindUser(w) ==
    /\ proc[w].pc = "c_user"
    /\ LET user == FindUser(proc[w].user_id) IN
        IF CreateLobbyCheck(user) # "ok"
        THEN Return(w)
        ELSE \E l \in LobbyIds :
                proc' = [proc EXCEPT ![w].pc = "c_insert",
                                     ![w].lobby_id = l,
                                     ![w].user = user]
    /\ UNCHANGED <<users, lobbies, active, created, started, joined, refused, liked, calls, oids>>

\* lobby_data with the host left out of the users list
LobbyDataNoMember(u, oid) ==
    [oid |-> oid, host_id |-> u, users |-> <<>>, status |-> "open"]

\* lobby_data: the creating user is the host and the only user; oid is the
\* _id that insert_one gives the document
LobbyData(u, oid) ==
    [oid |-> oid, host_id |-> u, users |-> <<u>>, status |-> "open"]

\* insert_one: the unique index on lobby_id rejects an id already stored in
\* lobbies_collection (DuplicateKeyError, not handled)
CreateLobbyInsert(w) ==
    /\ proc[w].pc = "c_insert"
    /\ LET l == proc[w].lobby_id
           u == proc[w].user_id IN
        IF l \in DOMAIN lobbies
        THEN /\ Return(w)
             /\ UNCHANGED <<lobbies, oids>>
        ELSE /\ lobbies' = [k \in DOMAIN lobbies \cup {l} |->
                              IF k = l THEN LobbyData(u, oids + 1)
                              ELSE lobbies[k]]
             /\ oids' = oids + 1
             /\ proc' = [proc EXCEPT ![w].pc = "c_update"]
    /\ UNCHANGED <<users, active, created, started, joined, refused, liked, calls>>

CreateLobbyUpdateUser(w) ==
    /\ proc[w].pc = "c_update"
    /\ users' = SetUserHost(proc[w].user_id, proc[w].lobby_id)
    /\ created' = created \cup {proc[w].lobby_id}
    /\ Return(w)
    /\ UNCHANGED <<lobbies, active, started, joined, refused, liked, calls, oids>>

\* ------------------------------------------------------------- join_lobby
JoinLobbyCall(w) ==
    /\ proc[w].pc = "idle"
    /\ calls < MaxCalls
    /\ \E l \in LobbyIds, u \in UserIds :
        proc' = [proc EXCEPT ![w] =
                    [Idle EXCEPT !.op = "join_lobby", !.pc = "j_user",
                                 !.lobby_id = l, !.user_id = u]]
    /\ calls' = calls + 1
    /\ UNCHANGED <<users, lobbies, active, created, started, joined, refused, liked, oids>>

JoinLobbyFindUser(w) ==
    /\ proc[w].pc = "j_user"
    /\ proc' = [proc EXCEPT ![w].pc = "j_lobby",
                            ![w].user = FindUser(proc[w].user_id)]
    /\ UNCHANGED <<users, lobbies, active, created, started, joined, refused, liked, calls, oids>>

\* the three checks of join_lobby, in the order of the code, on the user and
\* the lobby the handler has read
JoinLobbyCheck(user, lobby) ==
    IF ~user.found \/ ~lobby.found THEN "NotFound"
    ELSE IF UserAttached(user) THEN "AlreadyInLobby"
    ELSE IF lobby.status # "open" THEN "LobbyNotOpen"
    ELSE "ok"

JoinLobbyFindLobby(w) ==
    /\ proc[w].pc = "j_lobby"
    /\ LET lobby == FindLobby(proc[w].lobby_id)
           err == JoinLobbyCheck(proc[w].user, lobby) IN
        IF err # "ok"
        THEN Return(w)
        ELSE /\ proc' = [proc EXCEPT ![w].pc = "j_push", ![w].lobby = lobby]
    /\ UNCHANGED <<users, lobbies, active, created, started, joined, refused, liked, calls, oids>>

\* update_one({"lobby_id": l}, {"$push": {"users": ...}}): no document is
\* changed when the filter matches none
JoinLobbyPush(w) ==
    /\ proc[w].pc = "j_push"
    /\ LET l == proc[w].lobby_id IN
        lobbies' = IF l \in DOMAIN lobbies
                   THEN [lobbies EXCEPT
                            ![l].users = Append(@, proc[w].user_id)]
                   ELSE lobbies
    /\ proc' = [proc EXCEPT ![w].pc = "j_update"]
    /\ UNCHANGED <<users, active, created, started, joined, refused, liked, calls, oids>>

JoinLobbyUpdateUser(w) ==
    /\ proc[w].pc = "j_update"
    /\ users' = SetUserLobby(proc[w].user_id, proc[w].lobby_id)
    /\ joined' = joined \cup {<<proc[w].lobby_id, proc[w].user_id>>}
    /\ Return(w)
    /\ UNCHANGED <<lobbies, active, created, started, refused, liked, calls, oids>>

\* ------------------------------------------------------------ start_lobby
StartLobbyCall(w) ==
    /\ proc[w].pc = "idle"
    /\ calls < MaxCalls
    /\ \E l \in LobbyIds, u \in UserIds :
        proc' = [proc EXCEPT ![w] =
                    [Idle EXCEPT !.op = "start_lobby", !.pc = "s_user",
                                 !.lobby_id = l, !.user_id = u]]
    /\ calls' = calls + 1
    /\ UNCHANGED <<users, lobbies, active, created, started, joined, refused, liked, oids>>

StartLobbyFindUser(w) ==
    /\ proc[w].pc = "s_user"
    /\ proc' = [proc EXCEPT ![w].pc = "s_lobby",
                            ![w].user = FindUser(proc[w].user_id)]
    /\ UNCHANGED <<users, lobbies, active, created, started, joined, refused, liked, calls, oids>>

\* start_lobby without the host test
StartLobbyCheckAnyUser(user, lobby, user_id) ==
    IF ~user.found \/ ~lobby.found THEN "NotFound" ELSE "ok"

\* the two checks of start_lobby, in the order of the code
StartLobbyCheck(user, lobby, user_id) ==
    IF ~user.found \/ ~lobby.found THEN "NotFound"
    ELSE IF lobby.host_id # user_id THEN "Forbidden"
    ELSE "ok"

StartLobbyFindLobby(w) ==
    /\ proc[w].pc = "s_lobby"
    /\ LET lobby == FindLobby(proc[w].lobby_id)
           err == StartLobbyCheck(proc[w].user, lobby, proc[w].user_id) IN
        /\ IF err # "ok"
           THEN Return(w)
           ELSE proc' = [proc EXCEPT ![w].pc = "s_insert", ![w].lobby = lobby]
        /\ refused' = IF err = "Forbidden"
                       THEN refused \cup {<<proc[w].lobby_id, proc[w].user_id>>}
                       ELSE refused
    /\ UNCHANGED <<users, lobbies, active, created, started, joined, liked, calls, oids>>

\* active_lobby_data with user_likes left empty
ActiveLobbyDataNoLikes(l, lobby) ==
    [oid |-> lobby.oid, lobby_id |-> l, host_id |-> lobby.host_id,
     users |-> lobby.users, status |-> "active", user_likes |-> EmptyLikes]

\* active_lobby_data: the lobby as it was read, its _id included, status
\* "active", and one empty like list per user of the lobby read
ActiveLobbyData(l, lobby) ==
    [oid |-> lobby.oid, lobby_id |-> l, host_id |-> lobby.host_id,
     users |-> lobby.users, status |-> "active",
     user_likes |-> [k \in Range(lobby.users) |-> <<>>]]

\* start_lobby removing the open lobby where it should insert the active one
StartLobbyInsertDeletes(w) ==
    /\ proc[w].pc = "s_insert"
    /\ lobbies' = [k \in DOMAIN lobbies \ {proc[w].lobby_id} |-> lobbies[k]]
    /\ proc' = [proc EXCEPT ![w].pc = "s_delete"]
    /\ UNCHANGED <<users, active, created, started, joined, refused, liked, calls, oids>>

\* insert_one: active_lobbies_collection has no index on lobby_id, but the
\* document carries the _id of the lobby read, and _id is unique in every
\* collection (DuplicateKeyError, not handled)
StartLobbyInsert(w) ==
    /\ proc[w].pc = "s_insert"
    /\ IF \E i \in 1..Len(active) : active[i].oid = proc[w].lobby.oid
       THEN /\ Return(w)
            /\ active' = active
       ELSE /\ active' = Append(active,
                            ActiveLobbyData(proc[w].lobby_id, proc[w].lobby))
            /\ proc' = [proc EXCEPT ![w].pc = "s_delete"]
    /\ UNCHANGED <<users, lobbies, created, started, joined, refused, liked, calls, oids>>

StartLobbyDelete(w) ==
    /\ proc[w].pc = "s_delete"
    /\ lobbies' = [k \in DOMAIN lobbies \ {proc[w].lobby_id} |-> lobbies[k]]
    /\ started' = started \cup {proc[w].lobby_id}
    /\ Return(w)
    /\ UNCHANGED <<users, active, created, joined, refused, liked, calls, oids>>

\* --------------------------------------------------------------- add_like
\* the handler body runs for a place_id that LikeBase accepts (gt=0); the
\* user id is any string, no user document is read
AddLikeCall(w) ==
    /\ proc[w].pc = "idle"
    /\ calls < MaxCalls
    /\ \E l \in LobbyIds, u \in UserIds, p \in PlaceIds :
        proc' = [proc EXCEPT ![w] =
                    [Idle EXCEPT !.op = "add_like", !.pc = "a_find",
                                 !.lobby_id = l, !.user_id = u,
                                 !.place_id = p]]
    /\ calls' = calls + 1
    /\ UNCHANGED <<users, lobbies, active, created, started, joined, refused, liked, oids>>

AddLikeFind(w) ==
    /\ proc[w].pc = "a_find"
    /\ LET i == ActiveIndex(active, proc[w].lobby_id) IN
        IF i = 0
        THEN Return(w)
        ELSE /\ proc' = [proc EXCEPT ![w].pc = "a_push",
                                     ![w].all_likes = active[i].user_likes]
    /\ UNCHANGED <<users, lobbies, active, created, started, joined, refused, liked, calls, oids>>

\* a $push that changes only the keys the document has
PushLikeKnownKey(user_likes, u, p) ==
    [k \in DOMAIN user_likes |->
        IF k = u THEN Append(user_likes[k], p) ELSE user_likes[k]]

\* a $set of the list of the key in place of the $push
PushLikeReset(user_likes, u, p) ==
    [k \in DOMAIN user_likes \cup {u} |->
        IF k = u THEN <<p>> ELSE user_likes[k]]

\* {"$push": {"user_likes.<user_id>": place_id}}: appends to the list of the
\* key, creating the key when it is absent
PushLike(user_likes, u, p) ==
    [k \in DOMAIN user_likes \cup {u} |->
        IF k = u
        THEN Append(IF u \in DOMAIN user_likes THEN user_likes[u] ELSE <<>>, p)
        ELSE user_likes[k]]

\* common_likes: the intersection of the like lists, as sets, of all keys
CommonLikes(all_likes) ==
    {p \in PlaceIds : \A k \in DOMAIN all_likes : p \in Range(all_likes[k])}

\* the "matches" of the response: computed from the document that
\* AddLikeFind has read, after the update has been sent
AddLikeMatches(w) == CommonLikes(proc[w].all_likes)

\* add_like writing back the user_likes it has read, with the like appended
\* ($set of the whole mapping in place of the $push on one key)
AddLikeWriteBack(w) ==
    /\ proc[w].pc = "a_push"
    /\ LET l == proc[w].lobby_id
           u == proc[w].user_id
           p == proc[w].place_id
           i == ActiveIndex(active, l) IN
        /\ active' = IF i = 0 THEN active
                     ELSE [active EXCEPT
                              ![i].user_likes = PushLike(proc[w].all_likes, u, p)]
        /\ liked' = IF DOMAIN proc[w].all_likes = {} THEN liked
                     ELSE liked \cup
                            {[lobby_id |-> l, user_id |-> u, place_id |-> p,
                              raced |-> i # 0 /\ active[i].user_likes #
                                                    proc[w].all_likes]}
        /\ Return(w)
    /\ UNCHANGED <<users, lobbies, created, started, joined, refused, calls, oids>>

\* update_one on the first matching document; all_likes[keys[0]] raises
\* IndexError on a document without keys, after the update
AddLikePush(w) ==
    /\ proc[w].pc = "a_push"
    /\ LET l == proc[w].lobby_id
           u == proc[w].user_id
           p == proc[w].place_id
           i == ActiveIndex(active, l) IN
        /\ active' = IF i = 0 THEN active
                     ELSE [active EXCEPT
                              ![i].user_likes = PushLike(@, u, p)]
        /\ liked' = IF DOMAIN proc[w].all_likes = {} THEN liked
                     ELSE liked \cup
                            {[lobby_id |-> l, user_id |-> u, place_id |-> p,
                              raced |-> i # 0 /\ active[i].user_likes #
                                                    proc[w].all_likes]}
        /\ Return(w)
    /\ UNCHANGED <<users, lobbies, created, started, joined, refused, calls, oids>>

\* ------------------------------------------------------- get_open_lobbies
\* find({"status": "open"}): the lobby ids of the listing.  The handler
\* reads once and writes nothing, so its response is a function of the state
GetOpenLobbies == {l \in DOMAIN lobbies : lobbies[l].status = "open"}

\* host_name: next(...) raises StopIteration when the host of a listed lobby
\* is not among its users
GetOpenLobbiesRaises ==
    \E l \in GetOpenLobbies : lobbies[l].host_id \notin Range(lobbies[l].users)

\* ------------------------------------------------------ get_lobby_details
GetLobbyDetailsCall(w) ==
    /\ proc[w].pc = "idle"
    /\ calls < MaxCalls
    /\ \E l \in LobbyIds :
        proc' = [proc EXCEPT ![w] =
                    [Idle EXCEPT !.op = "get_lobby_details", !.pc = "g_open",
                                 !.lobby_id = l, !.known = (l \in created)]]
    /\ calls' = calls + 1
    /\ UNCHANGED <<users, lobbies, active, created, started, joined, refused, liked, oids>>

\* find_one on lobbies_collection: the open lobby is the response
GetLobbyDetailsFindOpen(w) ==
    /\ proc[w].pc = "g_open"
    /\ IF proc[w].lobby_id \in DOMAIN lobbies
       THEN Return(w)
       ELSE proc' = [proc EXCEPT ![w].pc = "g_active"]
    /\ UNCHANGED <<users, lobbies, active, created, started, joined, refused, liked, calls, oids>>

\* the response of the second read: the active lobby, or 404
GetLobbyDetailsCheck(docs, l) ==
    IF ActiveIndex(docs, l) = 0 THEN "NotFound" ELSE "ok"

GetLobbyDetailsFindActive(w) ==
    /\ proc[w].pc = "g_active"
    /\ Return(w)
    /\ UNCHANGED <<users, lobbies, active, created, started, joined, refused, liked, calls, oids>>

\* ----------------------------------------------------------------- errors
\* the exception that the next collection call of worker w ends in, in the
\* current state; "ok" when the call does not raise
ErrorOf(w) ==
    LET l == proc[w].lobby_id
        u == proc[w].user_id
        pc == proc[w].pc IN
    IF pc = "c_user" THEN CreateLobbyCheck(FindUser(u))
    ELSE IF pc = "c_insert"
        THEN (IF l \in DOMAIN lobbies THEN "DuplicateKey" ELSE "ok")
    ELSE IF pc = "j_lobby" THEN JoinLobbyCheck(proc[w].user, FindLobby(l))
    ELSE IF pc = "s_lobby" THEN StartLobbyCheck(proc[w].user, FindLobby(l), u)
    ELSE IF pc = "s_insert"
        THEN (IF \E i \in 1..Len(active) : active[i].oid = proc[w].lobby.oid
              THEN "DuplicateKey" ELSE "ok")
    ELSE IF pc = "a_find"
        THEN (IF ActiveIndex(active, l) = 0 THEN "NotFound" ELSE "ok")
    ELSE IF pc = "a_push"
        THEN (IF DOMAIN proc[w].all_likes = {} THEN "IndexError" ELSE "ok")
    ELSE IF pc = "g_active" THEN GetLobbyDetailsCheck(active, l)
    ELSE "ok"

\* the positions a handler reaches only after one of its own writes
Written(w) == proc[w].pc \in {"c_update", "j_update", "s_delete"}

\* ------------------------------------------------------------------- Next
Next ==
    \/ CreateUser
    \/ \E w \in Workers :
        \/ CreateLobbyCall(w)
        \/ CreateLobbyFindUser(w)
        \/ CreateLobbyInsert(w)
        \/ CreateLobbyUpdateUser(w)
        \/ JoinLobbyCall(w)
        \/ JoinLobbyFindUser(w)
        \/ JoinLobbyFindLobby(w)
        \/ JoinLobbyPush(w)
        \/ JoinLobbyUpdateUser(w)
        \/ StartLobbyCall(w)
        \/ StartLobbyFindUser(w)
        \/ StartLobbyFindLobby(w)
        \/ StartLobbyInsert(w)
        \/ StartLobbyDelete(w)
        \/ AddLikeCall(w)
        \/ AddLikeFind(w)
        \/ AddLikePush(w)
        \/ GetLobbyDetailsCall(w)
        \/ GetLobbyDetailsFindOpen(w)
        \/ GetLobbyDetailsFindActive(w)

Spec == Init /\ [][Next]_vars

\* ----------------------------------------------------------------- claims
\* the documents of active_lobbies_collection with lobby id l
ActiveDocs(l) == {i \in 1..Len(active) : active[i].lobby_id = l}

\* the lobby ids, open or active, whose member list holds user u
MemberLobbies(u) ==
    {l \in DOMAIN lobbies : u \in Range(lobbies[l].users)}
        \cup {active[i].lobby_id : i \in {j \in 1..Len(active) :
                                            u \in Range(active[j].users)}}

\* C1: no user id is in the member list of more than one lobby-or-session,
\* in any state, the states between the collection calls of concurrent
\* create_lobby and join_lobby requests of the same user included.
C1_UserInAtMostOneLobby ==
    \A u \in UserIds : Cardinality(MemberLobbies(u)) <= 1

\* C2: a join that was answered with success is in the snapshot of the
\* session made of its lobby: the user is one of the session's users and a
\* key of its user_likes.
C2_JoinedUserInSession ==
    \A j \in joined : \A i \in ActiveDocs(j[1]) :
        /\ j[2] \in Range(active[i].users)
        /\ j[2] \in DOMAIN active[i].user_likes

\* C3: every lobby id that create_lobby has returned is the id of an open
\* lobby or of an active lobby, and never of both at once.
C3_ExactlyOneStore ==
    \A l \in created : (l \in DOMAIN lobbies) # (ActiveDocs(l) # {})

\* C4: the matches answered by add_like are the common likes of the session
\* as it is after the like of the call has been appended.
C4_MatchesAreCurrent ==
    [][\A w \in Workers :
        (proc[w].pc = "a_push" /\ proc'[w].pc = "idle")
            => AddLikeMatches(w) =
                CommonLikes(active'[ActiveIndex(active', proc[w].lobby_id)].user_likes)
      ]_vars

\* C5: join_lobby of a user that exists on a lobby that has been started and
\* is no longer open is answered with "Lobby is not open".
C5_JoinStartedIsNotOpen ==
    [][\A w \in Workers :
        (/\ proc[w].pc = "j_lobby"
         /\ proc'[w].pc # "j_lobby"
         /\ proc[w].user.found
         /\ proc[w].lobby_id \in started
         /\ proc[w].lobby_id \notin DOMAIN lobbies)
            => JoinLobbyCheck(proc[w].user, FindLobby(proc[w].lobby_id))
                    = "LobbyNotOpen"
      ]_vars

\* C6: once start_lobby has answered with success for a lobby id, the id is
\* not found among the open lobbies and is not listed by get_open_lobbies.
C6_StartedNeverOpen ==
    \A l \in started : l \notin DOMAIN lobbies /\ l \notin GetOpenLobbies

\* C7: no like that add_like has answered is lost: the place is in the like
\* list of the user in the session, whatever likes of other users were
\* written between the read and the write of the call or after it.
C7_NoLostLike ==
    \A k \in liked :
        LET i == ActiveIndex(active, k.lobby_id) IN
            /\ i # 0
            /\ k.user_id \in DOMAIN active[i].user_likes
            /\ k.place_id \in Range(active[i].user_likes[k.user_id])

\* two likes of different users of one session, the second written after the
\* document had changed since the call read it
C7_Witness ==
    \E a \in liked, b \in liked :
        /\ a.lobby_id = b.lobby_id
        /\ a.user_id # b.user_id
        /\ b.raced

\* C8: in every step, every like list of every session is a prefix of its
\* value after the step, and no key of user_likes goes away.
C8_LikesOnlyGrow ==
    [][\A i \in 1..Len(active) :
        /\ i <= Len(active')
        /\ \A u \in DOMAIN active[i].user_likes :
            /\ u \in DOMAIN active'[i].user_likes
            /\ IsPrefix(active[i].user_likes[u], active'[i].user_likes[u])
      ]_vars

\* a like list that has grown twice, by the same place
C8_Witness ==
    \E i \in 1..Len(active) : \E u \in DOMAIN active[i].user_likes :
        /\ Len(active[i].user_likes[u]) = 2
        /\ active[i].user_likes[u][1] = active[i].user_likes[u][2]

\* C9: the keys of user_likes of every session are exactly the user ids of
\* the users of the session.
C9_LikeKeysAreMembers ==
    \A i \in 1..Len(active) :
        DOMAIN active[i].user_likes = Range(active[i].users)

\* C10: start_lobby of an open lobby by a user that exists and is not its
\* host is answered with 403 and writes nothing; and a document is inserted
\* in active_lobbies_collection only by a start_lobby request of the user
\* that is the host_id of the document.
C10_OnlyHostStarts ==
    [][/\ \A w \in Workers :
            (/\ proc[w].pc = "s_lobby"
             /\ proc'[w].pc # "s_lobby"
             /\ proc[w].user.found
             /\ proc[w].lobby_id \in DOMAIN lobbies
             /\ lobbies[proc[w].lobby_id].host_id # proc[w].user_id)
                => /\ <<proc[w].lobby_id, proc[w].user_id>> \in refused'
                   /\ proc'[w] = Idle
                   /\ <<users', lobbies', active'>> = <<users, lobbies, active>>
       /\ Len(active') > Len(active)
            => \E w \in Workers :
                /\ proc[w].op = "start_lobby"
                /\ active'[Len(active')].lobby_id = proc[w].lobby_id
                /\ active'[Len(active')].host_id = proc[w].user_id
      ]_vars

\* a start by a user that is not the host was refused, the lobby is open as
\* before and no session has its id
C10_Witness ==
    \E r \in refused :
        /\ r[1] \in DOMAIN lobbies
        /\ lobbies[r[1]].host_id # r[2]
        /\ r[2] \in DOMAIN users
        /\ ActiveDocs(r[1]) = {}

\* C11: create_lobby never stores a lobby under an id that is in use: at the
\* insert of a lobby, its id is the id of no open lobby and of no active
\* lobby.
C11_CreatedIdIsFresh ==
    [][\A w \in Workers :
        (proc[w].pc = "c_insert" /\ proc'[w].pc = "c_update")
            => /\ proc[w].lobby_id \notin DOMAIN lobbies
               /\ ActiveDocs(proc[w].lobby_id) = {}
      ]_vars

\* C12: every open lobby has a users list that is not empty and holds its
\* host, so the host_name lookup of get_open_lobbies never raises.
C12_HostIsMember ==
    /\ \A l \in DOMAIN lobbies :
        /\ lobbies[l].users # <<>>
        /\ lobbies[l].host_id \in Range(lobbies[l].users)
    /\ ~GetOpenLobbiesRaises

\* an open lobby that a join has appended to
C12_Witness ==
    \E l \in DOMAIN lobbies :
        /\ Len(lobbies[l].users) >= 2
        /\ l \in GetOpenLobbies

\* C13: every place that add_like answers as a match is in the like list of
\* every key of the session as it is when the call returns.
C13_MatchesAreSound ==
    [][\A w \in Workers :
        (proc[w].pc = "a_push" /\ proc'[w].pc = "idle")
            => AddLikeMatches(w) \subseteq
                CommonLikes(active'[ActiveIndex(active', proc[w].lobby_id)].user_likes)
      ]_vars

\* C14: get_lobby_details answers 404 for no lobby id that create_lobby had
\* returned when the request arrived, whatever start_lobby writes between
\* its two reads.
C14_CreatedIdIsFound ==
    [][\A w \in Workers :
        (proc[w].pc = "g_active" /\ proc'[w].pc = "idle" /\ proc[w].known)
            => GetLobbyDetailsCheck(active, proc[w].lobby_id) = "ok"
      ]_vars

\* the first read found no open lobby for a created id: the lobby has been
\* started, and the second read is about to find the active lobby
C14_Witness ==
    \E w \in Workers :
        /\ proc[w].pc = "g_active"
        /\ proc[w].known
        /\ proc[w].lobby_id \in started
        /\ proc[w].lobby_id \notin DOMAIN lobbies

\* the number of entries of user u in a users list
Occurrences(members, u) == Cardinality({i \in 1..Len(members) : members[i] = u})

\* no start_lobby has touched the open lobby l
NotActivated(l) ==
    /\ ActiveDocs(l) = {}
    /\ \A w \in Workers : ~(proc[w].op = "start_lobby" /\ proc[w].lobby_id = l)

\* C15: joins only append to an open lobby that is not being started: after
\* every step the host is the first user, every user whose join was answered
\* with success is in the list exactly once, and the list before the step is
\* a prefix of the list after it.
C15_JoinsOnlyAppend ==
    [][\A l \in DOMAIN lobbies' :
        NotActivated(l)' =>
            /\ lobbies'[l].users[1] = lobbies'[l].host_id
            /\ \A j \in joined' :
                j[1] = l => Occurrences(lobbies'[l].users, j[2]) = 1
            /\ (l \in DOMAIN lobbies /\ lobbies[l].oid = lobbies'[l].oid)
                => IsPrefix(lobbies[l].users, lobbies'[l].users)
      ]_vars

\* C16: add_like on a session by a user id that is none of its users and has
\* no key in user_likes is not refused: the read goes on to the update, the
\* update creates the key with the list <<place_id>>, and the like is
\* answered with success.
C16_NonMemberLikeIsRecorded ==
    [][\A w \in Workers :
        LET l == proc[w].lobby_id
            u == proc[w].user_id
            i == ActiveIndex(active, l) IN
        /\ (proc[w].pc = "a_find" /\ proc'[w] # proc[w] /\ i # 0)
                => proc'[w].pc = "a_push"
        /\ (/\ proc[w].pc = "a_push"
            /\ proc'[w].pc = "idle"
            /\ i # 0
            /\ u \notin Range(active[i].users)
            /\ u \notin DOMAIN active[i].user_likes)
                => /\ u \in DOMAIN active'[i].user_likes
                   /\ active'[i].user_likes[u] = <<proc[w].place_id>>
                   /\ \E k \in liked' :
                        /\ k.lobby_id = l
                        /\ k.user_id = u
                        /\ k.place_id = proc[w].place_id
      ]_vars

\* a session that holds the like of a user id that is not one of its users
C16_Witness ==
    \E k \in liked :
        LET i == ActiveIndex(active, k.lobby_id) IN
            /\ i # 0
            /\ k.user_id \notin Range(active[i].users)
            /\ k.user_id \in DOMAIN active[i].user_likes
            /\ active[i].user_likes[k.user_id] = <<k.place_id>>

C18_UserAndLobbyAgree ==
    (\A w \in Workers : proc[w].pc = "idle")
        => \A u \in DOMAIN users : \A l \in LobbyIds :
            (users[u].current_lobby_id = l) <=> (l \in MemberLobbies(u))

\* C19: active_lobbies_collection holds at most one document per lobby id.
C19_OneSessionPerLobbyId ==
    \A l \in LobbyIds : Cardinality(ActiveDocs(l)) <= 1

\* C20: a request that ends in an error has written nothing: the step that
\* raises leaves the three collections as they are, it comes before every
\* write of its handler, and it ends the handler.
C20_ErrorsWriteNothing ==
    [][\A w \in Workers :
        (proc'[w] # proc[w] /\ ErrorOf(w) # "ok")
            => /\ <<users', lobbies', active'>> = <<users, lobbies, active>>
               /\ ~Written(w)
               /\ proc'[w] = Idle
      ]_vars

\* a create_lobby whose insert is about to be rejected for its lobby id,
\* after a start_lobby has been refused
C20_Witness ==
    /\ refused # {}
    /\ \E w \in Workers :
        /\ proc[w].pc = "c_insert"
        /\ ErrorOf(w) = "DuplicateKey"

====
